---------------------------- MODULE Spec2Model ----------------------------
(***************************************************************************)
(* Model of the interview screener backend: app/config.py (Settings),      *)
(* app/services.py (fallback_score_and_text, call_openai_chat,             *)
(* parse_model_json, evaluate_text, evaluate_bulk) and app/main.py         *)
(* (evaluate_answer, rank_candidates).                                     *)
(*                                                                         *)
(* Texts are TLA+ strings, i.e. sequences of characters; a character is a  *)
(* string of length one.  The Python string methods the code uses are      *)
(* operators over such strings.                                            *)
(***************************************************************************)
EXTENDS Integers, Sequences, FiniteSets, TLC

(***************************************************************************)
(* Python str primitives                                                   *)
(***************************************************************************)
\* s[i-1] in Python's 0-based terms; "" outside the string
CharAt(s, i) == IF 1 <= i /\ i <= Len(s) THEN SubSeq(s, i, i) ELSE ""

\* Characters str.strip(), str.split() and the regex class \s treat as space.
Whitespace == {" ", "\t", "\n", "\r"}

UpperLetters == "ABCDEFGHIJKLMNOPQRSTUVWXYZ"
LowerLetters == "abcdefghijklmnopqrstuvwxyz"
Digits == "0123456789"

CharsOf(alphabet) == {CharAt(alphabet, i) : i \in 1..Len(alphabet)}

\* the 1-based position of c in alphabet, 0 if it is not there
IndexIn(alphabet, c) ==
    IF \E i \in 1..Len(alphabet) : CharAt(alphabet, i) = c
    THEN CHOOSE i \in 1..Len(alphabet) : CharAt(alphabet, i) = c
    ELSE 0

DigitChars == CharsOf(Digits)
UpperChars == CharsOf(UpperLetters)
WordChars == CharsOf(LowerLetters) \cup UpperChars \cup DigitChars \cup {"_"}

IsDigit(c) == c \in DigitChars

\* The regex class \w: letters, digits, underscore.
IsWordChar(c) == c \in WordChars

ToLower == [c \in UpperChars |-> CharAt(LowerLetters, IndexIn(UpperLetters, c))]

LowerChar(c) == IF c \in UpperChars THEN ToLower[c] ELSE c

RECURSIVE LowerRange(_, _, _)
\* lower() of s[a..b], halving the range
LowerRange(s, a, b) ==
    IF a > b THEN ""
    ELSE IF a = b THEN LowerChar(CharAt(s, a))
    ELSE LET m == (a + b) \div 2
         IN  LowerRange(s, a, m) \o LowerRange(s, m + 1, b)

\* str.lower()
lower(s) == LowerRange(s, 1, Len(s))

\* least index among the indices S of lo..hi, hi+1 if there is none
First(lo, hi, S) ==
    IF S = {} THEN hi + 1 ELSE CHOOSE j \in S : \A k \in lo..(j - 1) : k \notin S

\* greatest index among the indices S of lo..hi, lo-1 if there is none
Last(lo, hi, S) ==
    IF S = {} THEN lo - 1 ELSE CHOOSE j \in S : \A k \in (j + 1)..hi : k \notin S

IsSpaceAt(s, i) == CharAt(s, i) \in Whitespace

\* first index >= i of s that holds no whitespace, Len(s)+1 if there is none
SkipSpace(s, i) == First(i, Len(s), {j \in i..Len(s) : ~IsSpaceAt(s, j)})

\* last index <= i of s that holds no whitespace, 0 if there is none
SkipSpaceBack(s, i) == Last(1, i, {j \in 1..i : ~IsSpaceAt(s, j)})

\* str.strip()
strip(s) == SubSeq(s, SkipSpace(s, 1), SkipSpaceBack(s, Len(s)))

\* str.startswith(prefix)
startswith(s, prefix) ==
    Len(s) >= Len(prefix) /\ SubSeq(s, 1, Len(prefix)) = prefix

\* str.find(c) for a one-character c; 0 when absent (indices are 1-based
\* here, so Python's -1 is 0)
find(s, c) ==
    LET i == First(1, Len(s), {j \in 1..Len(s) : CharAt(s, j) = c})
    IN  IF i > Len(s) THEN 0 ELSE i

\* str.rfind(c)
rfind(s, c) == Last(1, Len(s), {j \in 1..Len(s) : CharAt(s, j) = c})

RECURSIVE SplitRange(_, _, _)
\* the whitespace-delimited words of s[a..b], where neither s[a-1] nor
\* s[b+1] continues a word: cut at a whitespace near the middle
SplitRange(s, a, b) ==
    IF a > b THEN << >>
    ELSE IF \A j \in a..b : ~IsSpaceAt(s, j) THEN <<SubSeq(s, a, b)>>
    ELSE LET mid == (a + b) \div 2
             m == IF \E j \in mid..b : IsSpaceAt(s, j)
                  THEN First(mid, b, {j \in mid..b : IsSpaceAt(s, j)})
                  ELSE Last(a, mid, {j \in a..mid : IsSpaceAt(s, j)})
         IN  SplitRange(s, a, m - 1) \o SplitRange(s, m + 1, b)

\* str.split() with no argument: the whitespace-delimited words
split(s) == SplitRange(s, 1, Len(s))

RECURSIVE JoinRange(_, _, _, _)
JoinRange(sep, ws, a, b) ==
    IF a > b THEN ""
    ELSE IF a = b THEN ws[a]
    ELSE LET m == (a + b) \div 2
         IN  JoinRange(sep, ws, a, m) \o sep \o JoinRange(sep, ws, m + 1, b)

\* sep.join(ws)
join(sep, ws) == JoinRange(sep, ws, 1, Len(ws))

RECURSIVE Rep(_, _)
\* Python's s * n
Rep(s, n) ==
    IF n <= 0 THEN ""
    ELSE IF n = 1 THEN s
    ELSE Rep(s, n \div 2) \o Rep(s, n - (n \div 2))

(***************************************************************************)
(* services.py: the fallback heuristic                                     *)
(***************************************************************************)
KEY_TERMS ==
    << "design", "trade-off", "complexity", "edge", "optimize", "test",
       "security", "performance", "scalability", "consistency", "retry",
       "idempotent" >>

LenScore5 == 80
LenScore4 == 50
LenScore3 == 25
LenScore2 == 10
KeywordsScore5 == 2
KeywordsScore4 == 1
SummaryWords == 20

NoAnswer ==
    [score |-> 1, summary |-> "No answer provided.",
     improvement |-> "Provide an answer with key ideas."]

\* The regex assertion \b at the gap before index i of s (1 <= i <= Len(s)+1).
WordBoundary(s, i) ==
    LET before == i > 1 /\ IsWordChar(CharAt(s, i - 1))
        after  == i <= Len(s) /\ IsWordChar(CharAt(s, i))
    IN  before # after

\* re.search(r"\b" + re.escape(k) + r"\b", text, flags=re.I) finds a match.
\* low is lower(text): case folding changes neither length nor \w-ness.
KeywordFound(low, k) ==
    \E i \in 1..(Len(low) - Len(k) + 1) :
        /\ SubSeq(low, i, i + Len(k) - 1) = k
        /\ WordBoundary(low, i)
        /\ WordBoundary(low, i + Len(k))

\* re.split(r'(?<=[.!?])\s+', text, maxsplit=1)[0] ends before the first
\* whitespace that follows one of . ! ? ; the index of that whitespace, or
\* Len(text)+1 when the pattern does not match.
SentenceEnd(text) ==
    First(2, Len(text),
          {i \in 2..Len(text) :
              IsSpaceAt(text, i) /\ CharAt(text, i - 1) \in {".", "!", "?"}})

HeuristicScore(length, keywords) ==
    IF length >= LenScore5 /\ keywords >= KeywordsScore5 THEN 5
    ELSE IF length >= LenScore4 /\ keywords >= KeywordsScore4 THEN 4
    ELSE IF length >= LenScore3 THEN 3
    ELSE IF length >= LenScore2 THEN 2
    ELSE 1

\* line 45: the number of KEY_TERMS found in the text, low being lower(text)
KeywordCount(low) ==
    Cardinality({k \in 1..Len(KEY_TERMS) : KeywordFound(low, KEY_TERMS[k])})

\* line 61, for s_words = first_sentence.split()
Summary(s_words) ==
    IF Len(s_words) > SummaryWords
    THEN join(" ", SubSeq(s_words, 1, SummaryWords)) \o "..."
    ELSE join(" ", s_words)

\* line 62
Improvement(score) ==
    IF score < 4
    THEN "Be more specific and mention trade-offs or testing."
    ELSE "Add a concrete example or metrics."

\* lines 43-64, for the stripped text
Scored(text, score) ==
    [score |-> score,
     summary |-> Summary(split(SubSeq(text, 1, SentenceEnd(text) - 1))),
     improvement |-> Improvement(score)]

Heuristic(text) ==
    Scored(text, HeuristicScore(Len(split(text)), KeywordCount(lower(text))))

\* variant: no test for the empty text
EmptyOrHeuristic_unchecked(text) == Heuristic(text)

\* lines 40-42, then the heuristic
EmptyOrHeuristic(text) == IF text = "" THEN NoAnswer ELSE Heuristic(text)

fallback_score_and_text(answer) == EmptyOrHeuristic(strip(answer))

(***************************************************************************)
(* JSON values (json.loads results, resp.json() data).  A value is a       *)
(* record: t its type, n its integer content, s its string content, items  *)
(* the members of an object (<<key, value>> pairs in document order) or    *)
(* the elements of a list.                                                 *)
(***************************************************************************)
JNull == [t |-> "null", n |-> 0, s |-> "", items |-> << >>]
JStr(str) == [t |-> "str", n |-> 0, s |-> str, items |-> << >>]
JInt(i) == [t |-> "int", n |-> i, s |-> "", items |-> << >>]
\* a float keeps its integer part (what int() truncates it to) and its lexeme
JFloat(trunc, lexeme) == [t |-> "float", n |-> trunc, s |-> lexeme, items |-> << >>]
JBool(b) == [t |-> "bool", n |-> IF b THEN 1 ELSE 0, s |-> "", items |-> << >>]
JObj(pairs) == [t |-> "obj", n |-> 0, s |-> "", items |-> pairs]
JList(elems) == [t |-> "list", n |-> 0, s |-> "", items |-> elems]

\* key in d, for a dict d
HasKey(d, key) == \E i \in 1..Len(d.items) : d.items[i][1] = key

\* d[key], for a dict d holding key (a repeated key keeps its last value)
Lookup(d, key) ==
    d.items[Last(1, Len(d.items), {i \in 1..Len(d.items) : d.items[i][1] = key})][2]

\* d.get(key, default)
Get(d, key, default) == IF HasKey(d, key) THEN Lookup(d, key) ELSE default

RECURSIVE NatOf(_)
\* the number a string of decimal digits denotes
NatOf(ds) ==
    IF Len(ds) = 0 THEN 0
    ELSE NatOf(SubSeq(ds, 1, Len(ds) - 1)) * 10 + (IndexIn(Digits, CharAt(ds, Len(ds))) - 1)

RECURSIVE NatStr(_)
\* str(n) for n >= 0
NatStr(n) ==
    IF n < 10 THEN CharAt(Digits, n + 1)
    ELSE NatStr(n \div 10) \o CharAt(Digits, (n % 10) + 1)

IntStr(n) == IF n < 0 THEN "-" \o NatStr(-n) ELSE NatStr(n)

(***************************************************************************)
(* json.loads, by recursive descent over the text.  Covered: objects,      *)
(* lists, strings with the escapes \" \\ \/ \n \t \r, integers, decimal    *)
(* fractions, true, false, null, and whitespace between tokens.  Not       *)
(* covered (never drawn by the model): exponents, \u escapes, NaN and      *)
(* Infinity.                                                               *)
(***************************************************************************)
JOk(v, nx) == [ok |-> TRUE, val |-> v, next |-> nx]
JFail == [ok |-> FALSE, val |-> JNull, next |-> 0]

Unescape(c) ==
    CASE c = "n" -> "\n"
      [] c = "t" -> "\t"
      [] c = "r" -> "\r"
      [] c \in {"\"", "\\", "/"} -> c

RECURSIVE ParseStringFrom(_, _, _)
\* the string whose text continues at index i, acc being what was read so far
ParseStringFrom(s, i, acc) ==
    LET j == First(i, Len(s),
                   {k \in i..Len(s) : CharAt(s, k) \in {"\"", "\\", "\n", "\t", "\r"}})
        c == CharAt(s, j)
        piece == acc \o SubSeq(s, i, j - 1)
    IN  IF c = "\"" THEN JOk(JStr(piece), j + 1)
        ELSE IF c = "\\" /\ CharAt(s, j + 1) \in {"n", "t", "r", "\"", "\\", "/"}
             THEN ParseStringFrom(s, j + 2, piece \o Unescape(CharAt(s, j + 1)))
             ELSE JFail   \* unterminated, raw control character, other escape

ParseNumber(s, i) ==
    LET neg == CharAt(s, i) = "-"
        a == IF neg THEN i + 1 ELSE i
        intEnd == IF CharAt(s, a) = "0" THEN a + 1
                  ELSE First(a, Len(s), {k \in a..Len(s) : ~IsDigit(CharAt(s, k))})
        ip == NatOf(SubSeq(s, a, intEnd - 1))
        hasFrac == CharAt(s, intEnd) = "."
        fracEnd == First(intEnd + 1, Len(s),
                         {k \in (intEnd + 1)..Len(s) : ~IsDigit(CharAt(s, k))})
        end == IF hasFrac THEN fracEnd ELSE intEnd
    IN  IF ~IsDigit(CharAt(s, a)) THEN JFail
        ELSE IF hasFrac /\ fracEnd = intEnd + 1 THEN JFail
        ELSE IF CharAt(s, end) \in {"e", "E"} THEN JFail
        ELSE IF hasFrac
             THEN JOk(JFloat(IF neg THEN -ip ELSE ip, SubSeq(s, i, end - 1)), end)
             ELSE JOk(JInt(IF neg THEN -ip ELSE ip), end)

LiteralAt(s, i, word) ==
    i + Len(word) - 1 <= Len(s) /\ SubSeq(s, i, i + Len(word) - 1) = word

RECURSIVE ParseValue(_, _)
RECURSIVE ParseMembers(_, _, _)
RECURSIVE ParseElements(_, _, _)

\* the members of an object from the key at index i on, acc the pairs so far
ParseMembers(s, i, acc) ==
    LET key == ParseStringFrom(s, i + 1, "")
        colon == SkipSpace(s, key.next)
        v == ParseValue(s, colon + 1)
        d == SkipSpace(s, v.next)
        pairs == Append(acc, <<key.val.s, v.val>>)
    IN  IF CharAt(s, i) # "\"" \/ ~key.ok THEN JFail
        ELSE IF CharAt(s, colon) # ":" THEN JFail
        ELSE IF ~v.ok THEN JFail
        ELSE IF CharAt(s, d) = "}" THEN JOk(JObj(pairs), d + 1)
        ELSE IF CharAt(s, d) = "," THEN ParseMembers(s, SkipSpace(s, d + 1), pairs)
        ELSE JFail

\* the elements of a list from the value at index i on
ParseElements(s, i, acc) ==
    LET v == ParseValue(s, i)
        d == SkipSpace(s, v.next)
        elems == Append(acc, v.val)
    IN  IF ~v.ok THEN JFail
        ELSE IF CharAt(s, d) = "]" THEN JOk(JList(elems), d + 1)
        ELSE IF CharAt(s, d) = "," THEN ParseElements(s, d + 1, elems)
        ELSE JFail

\* the value that starts at the first non-whitespace index >= i
ParseValue(s, i) ==
    LET a == SkipSpace(s, i)
        c == CharAt(s, a)
        b == SkipSpace(s, a + 1)
    IN  IF c = "{"
        THEN IF CharAt(s, b) = "}" THEN JOk(JObj(<< >>), b + 1)
             ELSE ParseMembers(s, b, << >>)
        ELSE IF c = "["
        THEN IF CharAt(s, b) = "]" THEN JOk(JList(<< >>), b + 1)
             ELSE ParseElements(s, a + 1, << >>)
        ELSE IF c = "\"" THEN ParseStringFrom(s, a + 1, "")
        ELSE IF c = "-" \/ IsDigit(c) THEN ParseNumber(s, a)
        ELSE IF LiteralAt(s, a, "null") THEN JOk(JNull, a + 4)
        ELSE IF LiteralAt(s, a, "true") THEN JOk(JBool(TRUE), a + 4)
        ELSE IF LiteralAt(s, a, "false") THEN JOk(JBool(FALSE), a + 5)
        ELSE JFail

\* json.loads(s): one value and nothing but whitespace after it; a failure is
\* json.JSONDecodeError, a ValueError
WholeText(s, r) ==
    IF r.ok /\ SkipSpace(s, r.next) > Len(s)
    THEN [ok |-> TRUE, val |-> r.val]
    ELSE [ok |-> FALSE, val |-> JNull]

json_loads(s) == WholeText(s, ParseValue(s, 1))

RECURSIVE EscapeRange(_, _, _)
\* the JSON string escapes json.dumps applies to s[a..b]
EscapeRange(s, a, b) ==
    IF a > b THEN ""
    ELSE IF a = b
    THEN LET c == CharAt(s, a)
         IN  CASE c = "\"" -> "\\\""
               [] c = "\\" -> "\\\\"
               [] c = "\n" -> "\\n"
               [] c = "\t" -> "\\t"
               [] c = "\r" -> "\\r"
               [] OTHER -> c
    ELSE LET m == (a + b) \div 2
         IN  EscapeRange(s, a, m) \o EscapeRange(s, m + 1, b)

Quoted(s) == "\"" \o EscapeRange(s, 1, Len(s)) \o "\""

RECURSIVE json_dumps(_)
RECURSIVE DumpItems(_, _, _)
\* the members (asObj) or elements of items[i..], separated by ", "
DumpItems(items, i, asObj) ==
    IF i > Len(items) THEN ""
    ELSE LET one == IF asObj
                    THEN Quoted(items[i][1]) \o ": " \o json_dumps(items[i][2])
                    ELSE json_dumps(items[i])
         IN  one \o (IF i < Len(items) THEN ", " ELSE "") \o DumpItems(items, i + 1, asObj)

\* json.dumps(v) with its default separators
json_dumps(v) ==
    CASE v.t = "null" -> "null"
      [] v.t = "bool" -> IF v.n = 1 THEN "true" ELSE "false"
      [] v.t = "int" -> IntStr(v.n)
      [] v.t = "float" -> v.s
      [] v.t = "str" -> Quoted(v.s)
      [] v.t = "list" -> "[" \o DumpItems(v.items, 1, FALSE) \o "]"
      [] v.t = "obj" -> "{" \o DumpItems(v.items, 1, TRUE) \o "}"

(***************************************************************************)
(* Python built-ins applied to a JSON value                                *)
(***************************************************************************)
\* the outcome of a call: a returned value, or an exception class raised
Return(v) == [ok |-> TRUE, val |-> v, exc |-> ""]
Raise(e) == [ok |-> FALSE, val |-> JNull, exc |-> e]

\* variant: handlers that catch the parsing errors only
ExceptionClasses_narrow ==
    {"ValueError", "TypeError", "AttributeError", "KeyError", "IndexError",
     "JSONDecodeError"}

\* the outcome of a call that was not made
NotCalled == [ok |-> FALSE, val |-> JNull, exc |-> "not called"]

\* The classes `except Exception` catches: every class the modelled code
\* raises derives from Exception.
ExceptionClasses ==
    {"ValueError", "TypeError", "AttributeError", "KeyError", "IndexError",
     "RuntimeError", "JSONDecodeError", "ReadTimeout", "ConnectError",
     "HTTPStatusError"}

\* bool(v)
Truthy(v) ==
    CASE v.t = "null" -> FALSE
      [] v.t \in {"bool", "int"} -> v.n # 0
      [] v.t = "float" -> \E k \in 1..Len(v.s) : IndexIn(Digits, CharAt(v.s, k)) > 1
      [] v.t = "str" -> v.s # ""
      [] v.t \in {"list", "obj"} -> v.items # << >>

\* int(str): optional surrounding whitespace, optional sign, decimal digits
\* (digit-group underscores are not covered)
IntOfStr(str) ==
    LET t == strip(str)
        signed == CharAt(t, 1) \in {"+", "-"}
        ds == IF signed THEN SubSeq(t, 2, Len(t)) ELSE t
    IN  IF ds # "" /\ \A k \in 1..Len(ds) : IsDigit(CharAt(ds, k))
        THEN Return(JInt(IF CharAt(t, 1) = "-" THEN -NatOf(ds) ELSE NatOf(ds)))
        ELSE Raise("ValueError")

\* int(v)
py_int(v) ==
    CASE v.t \in {"int", "bool"} -> Return(JInt(v.n))
      [] v.t = "float" -> Return(JInt(v.n))          \* truncates toward zero
      [] v.t = "str" -> IntOfStr(v.s)
      [] v.t \in {"null", "list", "obj"} -> Raise("TypeError")

\* str(v) for the scalars; the str of a float is its repr, which is the
\* lexeme for the short decimals read here
py_str(v) ==
    CASE v.t = "str" -> v.s
      [] v.t = "int" -> IntStr(v.n)
      [] v.t = "float" -> v.s
      [] v.t = "bool" -> IF v.n = 1 THEN "True" ELSE "False"
      [] v.t = "null" -> "None"

Max(a, b) == IF a >= b THEN a ELSE b
Min(a, b) == IF a <= b THEN a ELSE b

(***************************************************************************)
(* services.py: parse_model_json                                           *)
(***************************************************************************)
ScoreDefault == 1
ScoreMin == 1
ScoreMax == 5

\* variant: a score int() rejects counts as the default
ParsedScore_lenient(parsed) ==
    IF py_int(Get(parsed, "score", JInt(1))).ok
    THEN py_int(Get(parsed, "score", JInt(1)))
    ELSE Return(JInt(1))

\* int(parsed.get("score", 1))
ParsedScore(parsed) == py_int(Get(parsed, "score", JInt(ScoreDefault)))

\* variant: the score as parsed, unclamped
ClampScore_none(score) == score

\* max(1, min(5, score))
ClampScore(score) == Max(ScoreMin, Min(ScoreMax, score))

\* str(parsed.get(field, "")).strip()
ParsedText(parsed, field) == strip(py_str(Get(parsed, field, JStr(""))))

\* lines 116-124, for the dict json.loads returned and score = int(...)
Normalized(parsed, score) ==
    IF ~score.ok THEN Raise(score.exc)
    ELSE Return([score |-> ClampScore(score.val.n),
                 summary |-> ParsedText(parsed, "summary"),
                 improvement |-> ParsedText(parsed, "improvement")])

\* lines 114-124, for the outcome of json.loads(candidate)
Validated(parsed) ==
    IF ~parsed.ok THEN Raise("JSONDecodeError")
    ELSE Normalized(parsed.val, ParsedScore(parsed.val))

\* lines 111-124, for start = raw.find("{") and end = raw.rfind("}")
Extracted(raw, start, end) ==
    IF start = 0 \/ end = 0 \/ end <= start THEN Raise("ValueError")
    ELSE Validated(json_loads(SubSeq(raw, start, end)))

\* raw is the value call_openai_chat returned.  The result is Return of an
\* evaluation record, or Raise of the exception that leaves the function.
parse_model_json(raw) ==
    IF ~Truthy(raw) THEN Raise("ValueError")
    ELSE IF raw.t # "str" THEN Raise("AttributeError")
    ELSE Extracted(raw.s, find(raw.s, "{"), rfind(raw.s, "}"))

(***************************************************************************)
(* config.py: Settings, from the process environment                       *)
(***************************************************************************)
\* variant: the flag alone decides
USE_FALLBACK_flag_only(envKey, envFlag) == lower(envFlag) \in {"1", "true"}

\* envKey, envFlag: the values os.getenv gives for OPENAI_API_KEY and
\* USE_FALLBACK ("" when unset)
USE_FALLBACK_of(envKey, envFlag) ==
    lower(envFlag) \in {"1", "true"} \/ strip(envKey) = ""

Settings(envKey, envFlag) ==
    [OPENAI_API_KEY |-> strip(envKey),
     USE_FALLBACK |-> USE_FALLBACK_of(envKey, envFlag)]

(***************************************************************************)
(* services.py: call_openai_chat                                           *)
(***************************************************************************)
EVAL_PROMPT_head ==
    "\nYou are an expert hiring screener. Evaluate the candidate's short answer and RETURN STRICT JSON (no extra commentary).\nOutput EXACTLY three fields:\n- score: integer 1-5 (5 best)\n- summary: one-line concise summary (<= 20 words)\n- improvement: one short suggestion (<= 25 words)\n\nCandidate says:\n\"\"\""

EVAL_PROMPT_tail ==
    "\"\"\"\n\nUse these heuristics:\n5: Correct, complete, concise, shows depth or example.\n4: Mostly correct, minor missing detail.\n3: Partially correct or incomplete.\n2: Poor, big gaps.\n1: Incorrect/irrelevant.\n\nReturn JSON only.\n"

\* EVAL_PROMPT.format(answer=txt): the template has the one field {answer}
EVAL_PROMPT_format(txt) == EVAL_PROMPT_head \o txt \o EVAL_PROMPT_tail

\* What the transport gives back for one POST: an exception raised by
\* client.post (kind "error"), or a response with a status and a body.
\* `completion` names the text the remote model generated, when the body was
\* built around one ("" otherwise); the code reads only kind, exc, status, body.
TransportError(e) ==
    [kind |-> "error", exc |-> e, status |-> 0, body |-> "", completion |-> ""]
HttpResponse(status, body) ==
    [kind |-> "http", exc |-> "", status |-> status, body |-> body, completion |-> ""]

\* sub in s, for strings
Contains(s, sub) ==
    \E i \in 1..(Len(s) - Len(sub) + 1) : SubSeq(s, i, i + Len(sub) - 1) = sub

\* key in v, for a string key
py_in(key, v) ==
    CASE v.t = "obj" -> Return(JBool(HasKey(v, key)))
      [] v.t = "list" ->
           Return(JBool(\E i \in 1..Len(v.items) :
                            v.items[i].t = "str" /\ v.items[i].s = key))
      [] v.t = "str" -> Return(JBool(Contains(v.s, key)))
      [] OTHER -> Raise("TypeError")

\* v[key], for a string key
py_getitem(v, key) ==
    IF v.t = "obj"
    THEN IF HasKey(v, key) THEN Return(Lookup(v, key)) ELSE Raise("KeyError")
    ELSE Raise("TypeError")

\* len(v)
py_len(v) ==
    CASE v.t \in {"obj", "list"} -> Return(JInt(Len(v.items)))
      [] v.t = "str" -> Return(JInt(Len(v.s)))
      [] OTHER -> Raise("TypeError")

\* v[0]
py_first(v) ==
    CASE v.t = "list" ->
           IF v.items = << >> THEN Raise("IndexError") ELSE Return(v.items[1])
      [] v.t = "str" ->
           IF v.s = "" THEN Raise("IndexError") ELSE Return(JStr(CharAt(v.s, 1)))
      [] v.t = "obj" -> Raise("KeyError")
      [] OTHER -> Raise("TypeError")

\* lines 89-94: the completion of choice = data["choices"][0], or json.dumps(data)
ChoiceCompletion(data, choice) ==
    LET hasMessage == py_in("message", choice)
        message == py_getitem(choice, "message")
        hasContent == py_in("content", message.val)
        content == py_getitem(message.val, "content")
        hasText == py_in("text", choice)
        text == py_getitem(choice, "text")
    IN  IF ~hasMessage.ok THEN hasMessage
        ELSE IF hasMessage.val.n = 1 /\ ~message.ok THEN message
        ELSE IF hasMessage.val.n = 1 /\ ~hasContent.ok THEN hasContent
        ELSE IF hasMessage.val.n = 1 /\ hasContent.val.n = 1 THEN content
        ELSE IF hasText.val.n = 1 THEN text
        ELSE Return(JStr(json_dumps(data)))

\* lines 86-96: the text extracted from the decoded body
Completion(data) ==
    LET hasChoices == py_in("choices", data)
        choices == py_getitem(data, "choices")
        count == py_len(choices.val)
        choice == py_first(choices.val)
    IN  IF ~hasChoices.ok THEN hasChoices
        ELSE IF hasChoices.val.n = 0 THEN Return(JStr(json_dumps(data)))
        ELSE IF ~choices.ok THEN choices
        ELSE IF ~count.ok THEN count
        ELSE IF count.val.n = 0 THEN Return(JStr(json_dumps(data)))
        ELSE IF ~choice.ok THEN choice
        ELSE ChoiceCompletion(data, choice.val)

\* call_openai_chat from the point where client.post completes (lines 84-96)
\* lines 86-96, for the outcome of resp.json()
Decoded(data) ==
    IF ~data.ok THEN Raise("JSONDecodeError") ELSE Completion(data.val)

call_openai_chat_resume(resp) ==
    IF resp.kind = "error" THEN Raise(resp.exc)
    ELSE IF resp.status \notin 200..299 THEN Raise("HTTPStatusError")
    ELSE Decoded(json_loads(resp.body))

(***************************************************************************)
(* services.py: evaluate_text                                              *)
(***************************************************************************)
PREFIX == "candidate says:"

\* variant: the prefix test without lower()
normalize_case_sensitive(answer) ==
    LET txt == strip(answer)
    IN  IF startswith(txt, "candidate says:")
        THEN strip(SubSeq(txt, find(txt, ":") + 1, Len(txt)))
        ELSE txt

\* lines 135-137
normalize(answer) ==
    LET txt == strip(answer)
    IN  IF startswith(lower(txt), PREFIX)
        THEN strip(SubSeq(txt, find(txt, ":") + 1, Len(txt)))
        ELSE txt

\* lines 143-154 once call_openai_chat has returned or raised `chat`:
\* `except Exception` turns what it catches into the fallback result
\* variant: no handler, the outcome passes through
Absorb_propagate(outcome, fallback) == outcome

\* `except Exception` around an outcome: what it catches becomes the
\* fallback result, anything else propagates
Absorb(outcome, fallback) ==
    IF outcome.ok \/ outcome.exc \notin ExceptionClasses THEN outcome
    ELSE Return(fallback)

\* line 146: parse_model_json runs only when call_openai_chat returned
ParseCall(chat) == IF chat.ok THEN parse_model_json(chat.val) ELSE NotCalled

\* the inner try (lines 145-151), for parsed = ParseCall(chat)
ParseOrFallback(chat, parsed, fallback) ==
    IF chat.ok THEN Absorb(parsed, fallback) ELSE chat

\* the outer try (lines 143-154)
evaluate_text_resume(chat, parsed, fallback) ==
    Absorb(ParseOrFallback(chat, parsed, fallback), fallback)

\* the task once call_openai_chat is over with `chat`
Resumed(t, chat, parsed) ==
    [t EXCEPT !.pc = "done", !.parsed = parsed,
              !.result = evaluate_text_resume(chat, parsed, fallback_score_and_text(t.txt))]

(***************************************************************************)
(* services.py: evaluate_bulk (asyncio.gather) and main.py: the handlers   *)
(***************************************************************************)
\* Optional[str]: None is << >>, a string s is <<s>>
None == << >>
Some(str) == <<str>>

\* variant: the results in the order the children finished
GatherResults_completion(tasks, finished) ==
    [k \in 1..Len(finished) |-> tasks[finished[k]].result.val]

\* gather's result list: the children's results in the order the awaitables
\* were passed, whatever the order they finished in
GatherResults(tasks, finished) == [i \in 1..Len(tasks) |-> tasks[i].result.val]

\* lines 52-60 of main.py: zip(items, results) into RankedCandidate objects
RankedCandidate(item, res) ==
    [id |-> item.id, text |-> item.text, score |-> res.score,
     summary |-> res.summary, improvement |-> res.improvement]

Merge(its, results) ==
    [i \in 1..Min(Len(its), Len(results)) |-> RankedCandidate(its[i], results[i])]

\* the sort key of line 63, (-score, -len(summary)), compared as tuples
KeyBefore(a, b) ==
    \/ -a.score < -b.score
    \/ -a.score = -b.score /\ -Len(a.summary) < -Len(b.summary)

KeyEqual(a, b) == a.score = b.score /\ Len(a.summary) = Len(b.summary)

\* variant: an unstable sort that reverses the elements of equal key
SortedPosition_unstable(objs, i) ==
    1 + Cardinality({j \in 1..Len(objs) : KeyBefore(objs[j], objs[i])})
      + Cardinality({j \in (i + 1)..Len(objs) : KeyEqual(objs[j], objs[i])})

\* sorted(objs, key=...): Python's sort is stable, so the element at index i
\* lands after every element with a smaller key and after the elements with
\* an equal key that precede it
SortedPosition(objs, i) ==
    1 + Cardinality({j \in 1..Len(objs) : KeyBefore(objs[j], objs[i])})
      + Cardinality({j \in 1..(i - 1) : KeyEqual(objs[j], objs[i])})

sorted(objs) ==
    [p \in 1..Len(objs) |->
        objs[CHOOSE i \in 1..Len(objs) : SortedPosition(objs, i) = p]]

(***************************************************************************)
(* Inputs: the environment, the request bodies, what the remote returns    *)
(***************************************************************************)
\* the largest candidate list POSTed to /rank-candidates
MaxBatch == 2

EnvKeys == {"", "  ", " sk-test "}
EnvFlags == {"", "TRUE", "0"}

\* answers as a candidate might give them
WordsAnswer(n, lead) == lead \o Rep(" w", n - Len(split(lead)))

Answers ==
    { "",
      "hi",
      "I would shard the DB. Then test it!",
      WordsAnswer(10, "We retry"),
      WordsAnswer(25, "No sentence end here"),
      WordsAnswer(50, "Good DESIGN helps."),
      WordsAnswer(50, "Designs and testing and edges."),
      WordsAnswer(80, "I test the edge cases first."),
      WordsAnswer(80, "Only security is named") }

\* the ways a caller writes an answer X: bare, annotated, and with
\* surrounding whitespace and another letter case of the annotation
Bare(X) == X
Annotated(X) == "Candidate says: " \o X
Padded(X) == "  " \o X \o " \n"
Shouted(X) == "\tCANDIDATE SAYS:" \o X \o "  "

Wrapped(X) == {Annotated(X), Padded(X), Shouted(X)}

EvaluateTexts ==
    Answers
      \cup UNION {Wrapped(X) : X \in {"", "hi", "I would shard the DB. Then test it!"}}
      \cup {Annotated(Annotated("hi")), Shouted(Padded(Annotated("hi")))}

\* the candidates a ranking request is drawn from
CandidatePool ==
    { [id |-> Some("c1"), text |-> "short answer"],
      [id |-> None, text |-> Annotated("short answer")],
      [id |-> Some("c3"), text |-> Annotated(Annotated("short answer"))] }

RECURSIVE SeqsUpTo(_, _)
\* the sequences over S of length <= n
SeqsUpTo(S, n) ==
    IF n = 0 THEN {<< >>}
    ELSE LET shorter == SeqsUpTo(S, n - 1)
         IN  shorter \cup {Append(q, e) : q \in {r \in shorter : Len(r) = n - 1}, e \in S}

\* a chat-completion body whose first choice carries `content`
ChatBody(content) ==
    json_dumps(JObj(<< <<"id", JStr("chatcmpl-1")>>,
                       <<"choices", JList(<< JObj(<< <<"index", JInt(0)>>,
                           <<"message", JObj(<< <<"role", JStr("assistant")>>,
                                                <<"content", content>> >>)>> >>) >>)>> >>))

\* client.post raises: timeout, connection failure
TransportFaults == {TransportError("ReadTimeout"), TransportError("ConnectError")}

\* raise_for_status raises
StatusFaults ==
    { HttpResponse(500, "{\"error\": {\"message\": \"server error\"}}"),
      HttpResponse(429, "rate limited") }

\* the response whose first choice carries the completion c
ChatResponse(c) ==
    [kind |-> "http", exc |-> "", status |-> 200, body |-> ChatBody(JStr(c)),
     completion |-> c]

\* completions that hold no JSON object at all
NonJsonCompletions ==
    { "I think the answer is good.",
      "score: 4 } summary: fine {" }

\* completions whose JSON object is malformed
MalformedJsonCompletions ==
    { "{\"score\": 4, \"summary\": \"Good\", ",
      "{\"score\": 4 \"summary\": \"Good\"}",
      "{\"score\": 3} or maybe {\"score\": 4}",
      "{'score': 4, 'summary': 'Good'}" }

\* completions holding a well-formed object with an integer score
SolidCompletion ==
    "Sure! {\"score\": 4, \"summary\": \" Solid answer \", \"improvement\": \"Add metrics\"} Hope it helps"
GreatCompletion == "{\"score\": 9, \"summary\": \"Great\", \"improvement\": \"\"}"
OffTopicCompletion ==
    "{\"score\": -2, \"summary\": \"Off topic\", \"improvement\": \"Answer the question\"}"
ZeroCompletion == "{\"score\": 0}"
AdequateCompletion ==
    "{\"score\": 2, \"summary\": \"Adequate\", \"improvement\": \"Go deeper\"}"

IntScoreCompletions ==
    {SolidCompletion, GreatCompletion, OffTopicCompletion, ZeroCompletion,
     AdequateCompletion}

\* ... with no score member
NoScoreCompletions ==
    { "{\"summary\": \"No score given\", \"improvement\": \"n/a\"}",
      "{}" }

\* ... with a score that is not a number: a word, null
NonNumericScoreCompletions ==
    { "{\"score\": \"high\", \"summary\": \"Strong\", \"improvement\": \"None needed\"}",
      "{\"score\": null, \"summary\": \"Unclear\"}" }

\* ... with a score int() converts: a float, a quoted integer, a boolean
FloatCompletion == "{\"score\": 3.7, \"summary\": \"Fine\", \"improvement\": \"More depth\"}"
QuotedCompletion == "{\"score\": \"4\", \"summary\": \"Quoted\"}"
BoolCompletion == "{\"score\": true, \"summary\": \"Flag\"}"

ConvertedScoreCompletions == {FloatCompletion, QuotedCompletion, BoolCompletion}

\* ... with another score int() rejects: a quoted fraction, a list
RejectedScoreCompletions ==
    { "{\"score\": \"4.5\", \"summary\": \"Between\"}",
      "{\"score\": [4], \"summary\": \"Listed\"}" }

Completions ==
    NonJsonCompletions \cup MalformedJsonCompletions \cup IntScoreCompletions
      \cup NoScoreCompletions \cup NonNumericScoreCompletions
      \cup ConvertedScoreCompletions \cup RejectedScoreCompletions

\* a successful response whose body is not JSON: resp.json() raises
NonJsonBody == HttpResponse(200, "<html>Bad Gateway</html>")

\* successful responses that carry no usable completion string
OddResponses ==
    { NonJsonBody,
      HttpResponse(200, "{\"error\": {\"message\": \"quota\"}}"),
      HttpResponse(200, "{\"choices\": []}"),
      HttpResponse(200, ChatBody(JNull)),
      HttpResponse(200, ChatBody(JStr(""))),
      HttpResponse(200, "{\"choices\": [{\"text\": \"{\\\"score\\\": 3, \\\"summary\\\": \\\"Legacy\\\"}\"}]}") }

Responses ==
    TransportFaults \cup StatusFaults \cup OddResponses
      \cup {ChatResponse(c) : c \in Completions}

\* what the remote returns to the calls of a request with several candidates
BatchResponses == {TransportError("ReadTimeout"), ChatResponse(GreatCompletion)}

(***************************************************************************)
(* The state machine: one process serving one request                      *)
(***************************************************************************)
VARIABLES
    env,        \* the environment config.py reads: [OPENAI_API_KEY, USE_FALLBACK]
    settings,   \* config.settings
    endpoint,   \* "idle", or the handler running: "evaluate", "rank"
    items,      \* the (id, text) pairs under evaluation, in request order
    task,       \* per item, the evaluate_text coroutine: pc, txt, resp, result
    outbox,     \* the prompts POSTed to the remote, with the index of the task
    finished,   \* the indices of the finished tasks, in order of completion
    response    \* the HTTP response of the handler: status 0 while it runs

vars == <<env, settings, endpoint, items, task, outbox, finished, response>>

NoResponse == [status |-> 0, detail |-> "", result |-> NoAnswer, ranked |-> << >>]
NoHttp == [kind |-> "none", exc |-> "", status |-> 0, body |-> "", completion |-> ""]

Created ==
    [pc |-> "created", txt |-> "", resp |-> NoHttp, parsed |-> NotCalled,
     result |-> NotCalled]

\* variant: no validation of the candidate list
EmptyBatch_never(candidates) == FALSE

\* line 41 of main.py: `if not req.candidates`
EmptyBatch(candidates) == candidates = << >>

Init ==
    /\ \E k \in EnvKeys, f \in EnvFlags :
          /\ env = [OPENAI_API_KEY |-> k, USE_FALLBACK |-> f]
          /\ settings = Settings(k, f)
    /\ endpoint = "idle"
    /\ items = << >>
    /\ task = << >>
    /\ outbox = << >>
    /\ finished = << >>
    /\ response = NoResponse

\* POST /evaluate-answer: the handler awaits evaluate_text(req.text)
PostEvaluateAnswer ==
    /\ endpoint = "idle"
    /\ \E text \in EvaluateTexts :
          items' = <<[id |-> None, text |-> text]>>
    /\ endpoint' = "evaluate"
    /\ task' = <<Created>>
    /\ UNCHANGED <<env, settings, outbox, finished, response>>

\* POST /rank-candidates: lines 41-48 of main.py and 161-162 of services.py
PostRankCandidates ==
    /\ endpoint = "idle"
    /\ endpoint' = "rank"
    /\ \E candidates \in SeqsUpTo(CandidatePool, MaxBatch) :
          IF EmptyBatch(candidates)
          THEN /\ response' = [NoResponse EXCEPT !.status = 400,
                                                 !.detail = "No candidates provided"]
               /\ UNCHANGED <<items, task>>
          ELSE /\ items' = [i \in 1..Len(candidates) |->
                               [id |-> candidates[i].id, text |-> candidates[i].text]]
               /\ task' = [i \in 1..Len(candidates) |-> Created]
               /\ UNCHANGED response
    /\ UNCHANGED <<env, settings, outbox, finished>>

\* evaluate_text from its start to its first suspension or its return.  The
\* event loop starts the coroutines gather wrapped in the order it got them.
EvaluateStart(i) ==
    /\ i \in 1..Len(task)
    /\ task[i].pc = "created"
    /\ \A j \in 1..(i - 1) : task[j].pc # "created"
    /\ response.status = 0
    /\ LET txt == normalize(items[i].text)
           prompt == EVAL_PROMPT_format(txt)
       IN  IF settings.USE_FALLBACK
           THEN /\ task' = [task EXCEPT ![i] =
                       [@ EXCEPT !.pc = "done", !.txt = txt,
                                 !.result = Return(fallback_score_and_text(txt))]]
                /\ finished' = Append(finished, i)
                /\ UNCHANGED outbox
           ELSE IF settings.OPENAI_API_KEY = ""
           THEN \* call_openai_chat raises RuntimeError before any await
                /\ task' = [task EXCEPT ![i] =
                       Resumed([@ EXCEPT !.txt = txt], Raise("RuntimeError"), NotCalled)]
                /\ finished' = Append(finished, i)
                /\ UNCHANGED outbox
           ELSE /\ task' = [task EXCEPT ![i] = [@ EXCEPT !.pc = "awaiting", !.txt = txt]]
                /\ outbox' = Append(outbox, [task |-> i, prompt |-> prompt])
                /\ UNCHANGED finished
    /\ UNCHANGED <<env, settings, endpoint, items, response>>

Received(t, chat) == Resumed(t, chat, ParseCall(chat))

\* client.post completes for task i: the rest of call_openai_chat and of
\* evaluate_text run without suspending
RemoteResponds(i) ==
    /\ i \in 1..Len(task)
    /\ task[i].pc = "awaiting"
    /\ \E resp \in (IF Len(task) > 1 THEN BatchResponses ELSE Responses) :
          task' = [task EXCEPT ![i] = Received([@ EXCEPT !.resp = resp],
                                               call_openai_chat_resume(resp))]
    /\ finished' = Append(finished, i)
    /\ UNCHANGED <<env, settings, endpoint, items, outbox, response>>

Raised(i) == task[i].pc = "done" /\ ~task[i].result.ok

\* evaluate_answer resumes when evaluate_text is over (lines 26-27)
EvaluateAnswerReturns ==
    /\ endpoint = "evaluate"
    /\ response.status = 0
    /\ task[1].pc = "done"
    /\ response' = IF Raised(1)
                   THEN [NoResponse EXCEPT !.status = 500]
                   ELSE [NoResponse EXCEPT !.status = 200, !.result = task[1].result.val]
    /\ UNCHANGED <<env, settings, endpoint, items, task, outbox, finished>>

\* gather completes when every child has, or as soon as one has raised;
\* rank_candidates then runs lines 50-65 without suspending
RankCandidatesReturns ==
    /\ endpoint = "rank"
    /\ response.status = 0
    /\ \/ \A i \in 1..Len(task) : task[i].pc = "done"
       \/ \E i \in 1..Len(task) : Raised(i)
    /\ response' =
          IF \E i \in 1..Len(task) : Raised(i)
          THEN [NoResponse EXCEPT !.status = 500]
          ELSE [NoResponse EXCEPT
                   !.status = 200,
                   !.ranked = sorted(Merge(items, GatherResults(task, finished)))]
    /\ UNCHANGED <<env, settings, endpoint, items, task, outbox, finished>>

Next ==
    \/ PostEvaluateAnswer
    \/ PostRankCandidates
    \/ \E i \in 1..Len(task) : EvaluateStart(i)
    \/ \E i \in 1..Len(task) : RemoteResponds(i)
    \/ EvaluateAnswerReturns
    \/ RankCandidatesReturns

Spec == Init /\ [][Next]_vars

(***************************************************************************)
(* Properties                                                              *)
(***************************************************************************)
Tasks == 1..Len(task)
Done(i) == task[i].pc = "done"
Answered == response.status # 0

\* the remote faults: no credential, a transport failure or timeout, a
\* non-success status, a body or a completion that is not JSON, a completion
\* that is malformed JSON
RemoteFault(i) ==
    \/ settings.OPENAI_API_KEY = ""
    \/ task[i].resp.kind = "error"
    \/ task[i].resp.kind = "http" /\ task[i].resp.status \notin 200..299
    \/ task[i].resp = NonJsonBody
    \/ task[i].resp.completion \in NonJsonCompletions \cup MalformedJsonCompletions

\* C1: under every remote fault evaluate_text returns, and what it returns
\* is the fallback heuristic applied to the normalized text; evaluate_answer
\* then answers 200 with that result.
FailOpen ==
    /\ \A i \in Tasks :
          Done(i) /\ RemoteFault(i) =>
             task[i].result = Return(fallback_score_and_text(normalize(items[i].text)))
    /\ (endpoint = "evaluate" /\ Answered /\ RemoteFault(1)) =>
          /\ response.status = 200
          /\ response.result = fallback_score_and_text(normalize(items[1].text))

\* a malformed completion was received for a non-empty answer and absorbed
FailOpenWitness ==
    \E i \in Tasks :
       /\ Done(i)
       /\ task[i].resp.completion \in MalformedJsonCompletions
       /\ task[i].txt # ""
       /\ task[i].result.ok
       /\ task[i].result.val.summary = task[i].txt

\* C2: every finished evaluation returned a score in 1..5, on every path,
\* and so does every score the handlers send back.
ScoreRange ==
    /\ \A i \in Tasks : Done(i) => task[i].result.ok /\ task[i].result.val.score \in 1..5
    /\ response.status = 200 =>
          /\ response.result.score \in 1..5
          /\ \A p \in 1..Len(response.ranked) : response.ranked[p].score \in 1..5

\* a remote score of 9 came back as 5, one of -2 as 1
ScoreRangeWitness ==
    \E i \in Tasks :
       /\ Done(i)
       /\ task[i].resp.completion = OffTopicCompletion
       /\ task[i].result.val.score = 1
       /\ task[i].result.val.summary = "Off topic"

\* the candidates as merged with their own evaluations, in request order
Evaluated ==
    [i \in Tasks |->
        [id |-> items[i].id, text |-> items[i].text,
         score |-> task[i].result.val.score,
         summary |-> task[i].result.val.summary,
         improvement |-> task[i].result.val.improvement]]

Ranked == endpoint = "rank" /\ response.status = 200

SameKey(a, b) == a.score = b.score /\ Len(a.summary) = Len(b.summary)

\* C3: the ranked list is in descending score order, equal scores in
\* descending summary length, and the candidates of equal score and summary
\* length in the order they had in the request.
RankOrder ==
    Ranked =>
       LET r == response.ranked
       IN  /\ \A p \in 1..(Len(r) - 1) :
                \/ r[p].score > r[p + 1].score
                \/ r[p].score = r[p + 1].score /\ Len(r[p].summary) >= Len(r[p + 1].summary)
           /\ \A p \in 1..Len(r) :
                SelectSeq(r, LAMBDA e : SameKey(e, r[p]))
                   = SelectSeq(Evaluated, LAMBDA e : SameKey(e, r[p]))

\* two different candidates of equal score and summary length were ranked
RankOrderWitness ==
    /\ Ranked
    /\ \E p, q \in 1..Len(response.ranked) :
          /\ p < q
          /\ SameKey(response.ranked[p], response.ranked[q])
          /\ response.ranked[p] # response.ranked[q]

\* C4: the ranked list is built only once every evaluation has finished, it
\* pairs each candidate's id and original text with that candidate's own
\* result, and it is the sort of those pairs, whatever order the
\* evaluations finished in.
CompletionOrderIrrelevant ==
    Ranked =>
       /\ \A i \in Tasks : Done(i)
       /\ Len(response.ranked) = Len(items)
       /\ \A i \in Tasks :
             Cardinality({p \in 1..Len(response.ranked) : response.ranked[p] = Evaluated[i]})
                = Cardinality({j \in Tasks : Evaluated[j] = Evaluated[i]})
       /\ response.ranked = sorted(Evaluated)

\* the evaluations finished in another order than they were dispatched in,
\* with different results
CompletionOrderWitness ==
    /\ Ranked
    /\ \E k \in 1..(Len(finished) - 1) :
          /\ finished[k] > finished[k + 1]
          /\ task[finished[k]].result # task[finished[k + 1]].result

GreatResult == [score |-> 5, summary |-> "Great", improvement |-> ""]

\* C5: a failed remote call degrades the result of its own candidate alone:
\* a finished evaluation is the fallback of its own text when its own call
\* failed and the remote's result when its own call succeeded, it never
\* changes afterwards, a pending one stays pending or finishes, and the
\* handler answers 200 with one entry per candidate.
FailureIsolation ==
    /\ [](/\ \A i \in Tasks :
               Done(i) /\ task[i].resp.kind = "error" =>
                  task[i].result = Return(fallback_score_and_text(task[i].txt))
          /\ \A i \in Tasks :
               Done(i) /\ task[i].resp.completion = GreatCompletion =>
                  task[i].result = Return(GreatResult)
          /\ (endpoint = "rank" /\ Answered /\ items # << >>) =>
                response.status = 200 /\ Len(response.ranked) = Len(items))
    /\ [][\A i \in Tasks :
             /\ Done(i) => task'[i] = task[i]
             /\ task[i].pc = "awaiting" => task'[i].pc \in {"awaiting", "done"}]_vars

\* a batch was ranked in which one call timed out and another succeeded
FailureIsolationWitness ==
    /\ Ranked
    /\ \E i, j \in Tasks :
          /\ task[i].resp.kind = "error"
          /\ task[j].resp.completion = GreatCompletion
          /\ task[j].result.val = GreatResult

\* C6: an empty candidate list is answered 400 with no evaluation started
\* and no remote call made, and no handler answers any other error.
OnlyEmptyBatchError ==
    /\ (endpoint = "rank" /\ items = << >>) =>
          response.status = 400 /\ task = << >> /\ outbox = << >>
    /\ Answered =>
          \/ response.status = 200
          \/ response.status = 400 /\ endpoint = "rank" /\ items = << >>

\* the empty list was rejected
OnlyEmptyBatchErrorWitness ==
    /\ endpoint = "rank"
    /\ response.status = 400
    /\ response.detail = "No candidates provided"

\* C7: with no API key in the environment fallback mode is on whatever the
\* flag says, and in fallback mode no request goes to the remote and every
\* evaluation is the heuristic's result for the normalized text.
FallbackForced ==
    /\ strip(env.OPENAI_API_KEY) = "" => settings.USE_FALLBACK
    /\ settings.USE_FALLBACK =>
          /\ outbox = << >>
          /\ \A i \in Tasks : task[i].pc # "awaiting"
          /\ \A i \in Tasks :
                Done(i) =>
                   /\ task[i].resp = NoHttp
                   /\ task[i].result = Return(fallback_score_and_text(normalize(items[i].text)))

\* an answer was evaluated with no key and the flag set to "0"
FallbackForcedWitness ==
    /\ strip(env.OPENAI_API_KEY) = ""
    /\ env.USE_FALLBACK = "0"
    /\ \E i \in Tasks : Done(i) /\ task[i].txt # ""

\* the answers X of the prefix claim
PrefixAnswers ==
    Answers \cup {"short answer", Annotated("hi"), Padded(Annotated("hi")),
                  Annotated("short answer")}

HasPrefix(X) == startswith(lower(strip(X)), "candidate says:")

Started(i) == task[i].pc # "created"

\* the prompts sent for task i carry the text txt
PromptsCarry(i, txt) ==
    \A k \in 1..Len(outbox) :
       outbox[k].task = i => outbox[k].prompt = EVAL_PROMPT_head \o txt \o EVAL_PROMPT_tail

\* C8 as claimed: evaluate_text of X and of X under the prefix, in any case
\* and with surrounding whitespace, both pass the trimmed X downstream, for
\* every X.
PrefixNormalizationClaimed ==
    \A i \in Tasks : \A X \in PrefixAnswers :
       (Started(i) /\ items[i].text \in {X} \cup Wrapped(X)) =>
          task[i].txt = strip(X) /\ PromptsCarry(i, strip(X))

\* C8 as amended: X under the prefix always passes the trimmed X downstream,
\* and so does X itself unless X begins with the prefix, when X passes what
\* follows its own prefix: exactly one prefix is removed.
PrefixNormalization ==
    \A i \in Tasks : \A X \in PrefixAnswers :
       /\ (Started(i) /\ items[i].text \in Wrapped(X)) =>
             task[i].txt = strip(X) /\ PromptsCarry(i, strip(X))
       /\ (Started(i) /\ items[i].text = X /\ ~HasPrefix(X)) =>
             task[i].txt = strip(X) /\ PromptsCarry(i, strip(X))
       /\ (Started(i) /\ items[i].text = X /\ HasPrefix(X)) =>
             /\ task[i].txt # strip(X)
             /\ \E Y \in PrefixAnswers : X \in Wrapped(Y) /\ task[i].txt = strip(Y)

\* an upper-case, padded prefix was removed and the prompt sent
PrefixNormalizationWitness ==
    \E i \in Tasks :
       /\ items[i].text = Shouted("hi")
       /\ task[i].txt = "hi"
       /\ \E k \in 1..Len(outbox) : outbox[k].task = i

\* what parse_model_json gave for task i
Parsed(i) == task[i].parsed

EmptyAnswerResult ==
    [score |-> 1, summary |-> "No answer provided.",
     improvement |-> "Provide an answer with key ideas."]

\* C9 as claimed: an answer that is empty after trimming evaluates to the
\* fixed empty-answer result in every configuration.
EmptyAnswerClaimed ==
    \A i \in Tasks :
       (Done(i) /\ strip(items[i].text) = "") => task[i].result = Return(EmptyAnswerResult)

\* C9 as amended: it does in fallback mode and, with the remote enabled,
\* whenever the remote call fails or its completion does not parse; a
\* completion that parses is returned as the result, also for an empty
\* answer.
EmptyAnswer ==
    \A i \in Tasks :
       (Done(i) /\ strip(items[i].text) = "") =>
          /\ (settings.USE_FALLBACK \/ RemoteFault(i) \/ ~Parsed(i).ok) =>
                task[i].result = Return(EmptyAnswerResult)
          /\ Parsed(i).ok => task[i].result = Parsed(i)
          /\ task[i].resp.completion = SolidCompletion =>
                task[i].result =
                   Return([score |-> 4, summary |-> "Solid answer",
                           improvement |-> "Add metrics"])

\* an empty answer went to the remote, which timed out
EmptyAnswerWitness ==
    \E i \in Tasks :
       /\ Done(i)
       /\ strip(items[i].text) = ""
       /\ ~settings.USE_FALLBACK
       /\ task[i].resp.kind = "error"
       /\ task[i].result.val = EmptyAnswerResult

\* the score of an integer-score completion, clamped to 1..5
ExpectedScore(c) ==
    CASE c = SolidCompletion -> 4
      [] c = GreatCompletion -> 5
      [] c = OffTopicCompletion -> 1
      [] c = ZeroCompletion -> 1
      [] c = AdequateCompletion -> 2
      [] c = FloatCompletion -> 3
      [] c = QuotedCompletion -> 4
      [] c = BoolCompletion -> 1

\* C10 as claimed: on a well-formed object parse_model_json succeeds, with
\* score 1 when the score member is missing or not a number and with the
\* clamped score when it is an integer.
ScoreDefaultingClaimed ==
    \A i \in Tasks :
       Done(i) =>
          /\ task[i].resp.completion \in NoScoreCompletions \cup NonNumericScoreCompletions =>
                Parsed(i).ok /\ Parsed(i).val.score = 1
          /\ task[i].resp.completion \in IntScoreCompletions =>
                Parsed(i).ok /\ Parsed(i).val.score = ExpectedScore(task[i].resp.completion)

\* C10 as amended: it succeeds with score 1 when the member is missing and
\* with int(score) clamped when int() accepts the member (an integer, a
\* float, a quoted integer, a boolean); when int() rejects it (a word, null,
\* a quoted fraction, a list) it raises ValueError or TypeError, and
\* evaluate_text returns the fallback.
ScoreDefaulting ==
    \A i \in Tasks :
       Done(i) =>
          /\ task[i].resp.completion \in NoScoreCompletions =>
                Parsed(i).ok /\ Parsed(i).val.score = 1
          /\ task[i].resp.completion \in IntScoreCompletions \cup ConvertedScoreCompletions =>
                Parsed(i).ok /\ Parsed(i).val.score = ExpectedScore(task[i].resp.completion)
          /\ task[i].resp.completion \in NonNumericScoreCompletions \cup RejectedScoreCompletions =>
                /\ ~Parsed(i).ok
                /\ Parsed(i).exc \in {"ValueError", "TypeError"}
                /\ task[i].result = Return(fallback_score_and_text(task[i].txt))

\* a score of null raised TypeError in the parser
ScoreDefaultingWitness ==
    \E i \in Tasks :
       /\ Done(i)
       /\ task[i].resp.completion \in NonNumericScoreCompletions
       /\ Parsed(i).exc = "TypeError"

=============================================================================
